---- MODULE Spec2Model ----
(***************************************************************************)
(* Model of src/entrypoints/prepare.ts: the prepare step of the action.    *)
(* One process, run(), walks a fixed pipeline of awaited calls; the OAuth  *)
(* step (setupOAuthCredentials / refreshOAuthToken) decides whether to     *)
(* refresh the access token and writes the credentials file.               *)
(*                                                                         *)
(* The helper modules imported by prepare.ts are external collaborators:   *)
(* each call is one step whose result (a value, false, or a thrown error)  *)
(* is chosen nondeterministically.  console.log / console.error /          *)
(* core.setOutput / core.setFailed are taken not to throw, and a failed    *)
(* collaborator call is taken to have had no effect.                       *)
(***************************************************************************)
EXTENDS Integers, Sequences, FiniteSets, TLC

\* ------------------------------------------------------------------ bounds

\* Date.now() at the start of the run ranges over 0..MaxNow (scaled epoch).
MaxNow == 2

\* Date.now() advances by 0..MaxDelay while the refresh POST is in flight.
MaxDelay == 1

\* ------------------------------------------------------- JavaScript values

\* A JavaScript number: an integer or NaN.
Num(v) == [nan |-> FALSE, v |-> v]
NaN == [nan |-> TRUE, v |-> 0]

\* a <= b on JavaScript numbers: false when either side is NaN.
Leq(a, b) == ~a.nan /\ ~b.nan /\ a.v <= b.v

\* a * b and a + b on JavaScript numbers.
Times(a, b) == IF a.nan \/ b.nan THEN NaN ELSE Num(a.v * b.v)

Plus(a, b) == IF a.nan \/ b.nan THEN NaN ELSE Num(a.v + b.v)

\* JSON.stringify of a number: NaN is written as null.
JsonNumber(n) == IF n.nan THEN [null |-> TRUE, num |-> 0] ELSE [null |-> FALSE, num |-> n.v]

\* An environment variable: unset, or set to a value.
Unset(empty) == [set |-> FALSE, val |-> empty]
SetTo(v) == [set |-> TRUE, val |-> v]

\* process.env.X || "" for a variable holding a string.
OrEmpty(e) == IF e.set /\ e.val # "" THEN e.val ELSE ""

\* process.env.X || "" for a variable modelled as a sequence of characters.
OrEmptyChars(e) == IF e.set /\ e.val # <<>> THEN e.val ELSE <<>>

\* ----------------------------------------------------------------- parseInt

WhiteSpace == {" "}

\* The value of character c as a digit in the given radix, or -1.
DigitVal(c, radix) ==
  CASE c = "0" -> 0 [] c = "1" -> 1 [] c = "2" -> 2 [] c = "3" -> 3
    [] c = "4" -> 4 [] c = "5" -> 5 [] c = "6" -> 6 [] c = "7" -> 7
    [] c = "8" -> 8 [] c = "9" -> 9
    [] c \in {"a", "A"} /\ radix = 16 -> 10
    [] c \in {"b", "B"} /\ radix = 16 -> 11
    [] c \in {"c", "C"} /\ radix = 16 -> 12
    [] c \in {"d", "D"} /\ radix = 16 -> 13
    [] c \in {"e", "E"} /\ radix = 16 -> 14
    [] c \in {"f", "F"} /\ radix = 16 -> 15
    [] OTHER -> -1

RECURSIVE SkipWhiteSpace(_)
SkipWhiteSpace(s) ==
  IF s # <<>> /\ Head(s) \in WhiteSpace THEN SkipWhiteSpace(Tail(s)) ELSE s

\* The longest prefix of s made of digits of the radix, accumulated from acc;
\* seen says whether a digit has been read.
RECURSIVE ParseDigits(_, _, _, _)
ParseDigits(s, radix, acc, seen) ==
  IF s # <<>> /\ DigitVal(Head(s), radix) >= 0
  THEN ParseDigits(Tail(s), radix, acc * radix + DigitVal(Head(s), radix), TRUE)
  ELSE IF seen THEN Num(acc) ELSE NaN

\* parseInt(string) with no radix argument: leading white space is skipped,
\* an optional sign is read, a 0x / 0X prefix selects radix 16, and the
\* longest digit prefix is converted; no digit at all gives NaN.
ParseInt(str) ==
  LET s0 == SkipWhiteSpace(str)
      signed == s0 # <<>> /\ Head(s0) \in {"-", "+"}
      sign == IF s0 # <<>> /\ Head(s0) = "-" THEN -1 ELSE 1
      s1 == IF signed THEN Tail(s0) ELSE s0
      hex == Len(s1) >= 2 /\ s1[1] = "0" /\ s1[2] \in {"x", "X"}
      s2 == IF hex THEN SubSeq(s1, 3, Len(s1)) ELSE s1
      n == ParseDigits(s2, IF hex THEN 16 ELSE 10, 0, FALSE)
  IN IF n.nan THEN NaN ELSE Num(sign * n.v)

\* ------------------------------------------------------------------- inputs

\* Values of USE_OAUTH in the environment.
UseOAuthValues == {Unset(""), SetTo("true"), SetTo("false"), SetTo("TRUE"), SetTo("1")}

\* Values of CLAUDE_ACCESS_TOKEN and CLAUDE_REFRESH_TOKEN.
AccessTokenValues == {Unset(""), SetTo(""), SetTo("access-old")}
RefreshTokenValues == {Unset(""), SetTo(""), SetTo("refresh-1")}

\* Values of CLAUDE_EXPIRES_AT, as sequences of characters: unset, empty,
\* timestamps around now + 5 minutes, and strings parseInt reads in part or
\* not at all.
ExpiresAtValues ==
  { Unset(<<>>), SetTo(<<>>),
    SetTo(<<"0">>),
    SetTo(<<"3", "0", "0", "0", "0", "0">>),
    SetTo(<<"3", "0", "0", "0", "0", "1">>),
    SetTo(<<"3", "0", "0", "0", "0", "2">>),
    SetTo(<<"3", "0", "0", "0", "0", "9">>),
    SetTo(<<"3", "0", "0", "0", "0", "1", "m", "s">>),
    SetTo(<<" ", "4", "2">>),
    SetTo(<<"0", "x", "f", "f", "f", "f", "f">>),
    SetTo(<<"s", "o", "o", "n">>) }

\* Responses of the token endpoint to the refresh POST.
OkResponses ==
  { [ok |-> TRUE, status |-> 200, text |-> "", access_token |-> a, expires_in |-> Num(x)] :
      a \in {"access-new", "access-old"}, x \in {1, 3600} }
ErrorResponses ==
  { [ok |-> FALSE, status |-> st, text |-> t, access_token |-> "", expires_in |-> NaN] :
      st \in {400, 500}, t \in {"", "invalid_grant"} }
NoResponse == [ok |-> FALSE, status |-> 0, text |-> "", access_token |-> "", expires_in |-> NaN]

\* The branch setupBranch reports as created for the run: none for a pull
\* request, a new one for an issue.
ClaudeBranchValues == {"", "claude/issue-1"}

\* ------------------------------------------------------------------- errors

\* new Error(message)
Err(m) == [msg |-> m, status |-> 0, body |-> ""]
NoError == Err("")

\* new Error(`Failed to refresh token: ${response.status} ${errorText}`)
\* (variant: the body text left out of the message)
RefreshError_NoBody(status, errorText) ==
  [msg |-> "Failed to refresh token", status |-> status, body |-> ""]
RefreshError(status, errorText) ==
  [msg |-> "Failed to refresh token", status |-> status, body |-> errorText]

\* `Prepare step failed with error: ${error}`
FailureMessage(e) == [prefix |-> "Prepare step failed with error", error |-> e]

\* -------------------------------------------------------------------- state

VARIABLES
  env,          \* process.env: USE_OAUTH, CLAUDE_ACCESS_TOKEN, CLAUDE_REFRESH_TOKEN, CLAUDE_EXPIRES_AT
  clock,        \* what Date.now() returns
  pc,           \* the position of run()
  log,          \* history: the steps started, completed and failed, in order
  loc,          \* locals of run(): githubToken, octokit, context, hasWritePermissions, containsTrigger, commentId, branchInfo.claudeBranch, mcpConfig
  remote,       \* effects on the repository: comment posted, branch created, comment updated, prompt written
  oa,           \* locals of setupOAuthCredentials
  refreshCalls, \* number of POSTs sent to the token endpoint
  response,     \* the response to the last POST
  fs,           \* effects on the file system: mkdir calls that succeeded, credential records written
  outputs,      \* the outputs set with core.setOutput
  error,        \* the error being thrown
  failed,       \* the messages passed to core.setFailed
  exits         \* the codes passed to process.exit

vars == <<env, clock, pc, log, loc, remote, oa, refreshCalls, response, fs, outputs, error, failed, exits>>

Init ==
  /\ env \in [USE_OAUTH : UseOAuthValues, CLAUDE_ACCESS_TOKEN : AccessTokenValues,
              CLAUDE_REFRESH_TOKEN : RefreshTokenValues, CLAUDE_EXPIRES_AT : ExpiresAtValues]
  /\ clock \in 0..MaxNow
  /\ pc = "setupGitHubToken"
  /\ log = <<>>
  /\ loc = [githubToken |-> "", hasOctokit |-> FALSE, hasContext |-> FALSE,
            hasWritePermissions |-> Unset(FALSE), containsTrigger |-> Unset(FALSE),
            commentId |-> 0, claudeBranch |-> "", mcpConfig |-> ""]
  /\ remote = [comment |-> FALSE, branch |-> FALSE, commentUpdated |-> FALSE, promptFile |-> FALSE]
  /\ oa = [accessToken |-> "", refreshToken |-> "", expiresAt |-> <<>>, expiresAtMs |-> NaN,
           now |-> NaN, finalAccessToken |-> "", finalExpiresAt |-> NaN,
           refreshed |-> [accessToken |-> "", expiresAt |-> NaN]]
  /\ refreshCalls = 0
  /\ response = NoResponse
  /\ fs = [mkdirs |-> 0, writes |-> <<>>]
  /\ outputs = {}
  /\ error = NoError
  /\ failed = <<>>
  /\ exits = <<>>

\* ----------------------------------------------------------- control flow

\* The statement run() reaches after a step that completed, where the next
\* statement does not depend on the step's result.
\* (variant: the comment is created before the actor check)
Successor_CommentBeforeActorCheck(step) ==
  CASE step = "setupGitHubToken" -> "createOctokit"
    [] step = "createOctokit" -> "parseGitHubContext"
    [] step = "parseGitHubContext" -> "checkWritePermissions"
    [] step = "checkWritePermissions" -> "checkTriggerAction"
    [] step = "checkTriggerAction" -> "createInitialComment"
    [] step = "createInitialComment" -> "checkHumanActor"
    [] step = "checkHumanActor" -> "fetchGitHubData"
    [] step = "fetchGitHubData" -> "setupBranch"
    [] step = "updateTrackingComment" -> "createPrompt"
    [] step = "createPrompt" -> "prepareMcpConfig"
    [] step = "setupOAuthCredentials" -> "setOutput"
    [] step = "setOutput" -> "returned"
Successor(step) ==
  CASE step = "setupGitHubToken" -> "createOctokit"
    [] step = "createOctokit" -> "parseGitHubContext"
    [] step = "parseGitHubContext" -> "checkWritePermissions"
    [] step = "checkWritePermissions" -> "checkTriggerAction"
    [] step = "checkTriggerAction" -> "checkHumanActor"
    [] step = "checkHumanActor" -> "createInitialComment"
    [] step = "createInitialComment" -> "fetchGitHubData"
    [] step = "fetchGitHubData" -> "setupBranch"
    [] step = "updateTrackingComment" -> "createPrompt"
    [] step = "createPrompt" -> "prepareMcpConfig"
    [] step = "setupOAuthCredentials" -> "setOutput"
    [] step = "setOutput" -> "returned"

\* if (!hasWritePermissions) throw ...
\* (variant: the result of the check is not acted on)
PermissionsNext_Ignored(hasWritePermissions) == Successor("checkWritePermissions")
PermissionsNext(hasWritePermissions) ==
  IF hasWritePermissions THEN Successor("checkWritePermissions") ELSE "catch"

\* if (!containsTrigger) return;
\* (variant: no early return)
TriggerNext_NoEarlyReturn(containsTrigger) == Successor("checkTriggerAction")
TriggerNext(containsTrigger) ==
  IF containsTrigger THEN Successor("checkTriggerAction") ELSE "returned"

\* if (branchInfo.claudeBranch) await updateTrackingComment(...)
SetupBranchNext(claudeBranch) ==
  IF claudeBranch # "" THEN "updateTrackingComment" ELSE "createPrompt"

\* const useOAuth = process.env.USE_OAUTH === 'true';
\* (variant: any non-empty value enables OAuth)
UseOAuth_Truthy(e) == e.USE_OAUTH.set /\ e.USE_OAUTH.val # ""
UseOAuth(e) == e.USE_OAUTH.set /\ e.USE_OAUTH.val = "true"

\* if (useOAuth) await setupOAuthCredentials(); then the outputs
McpConfigNext(useOAuth) == IF useOAuth THEN "setupOAuthCredentials" ELSE "setOutput"

\* ------------------------------------------------------------------ history

Started(step) == [ev |-> "start", step |-> step]
Completed(step) == [ev |-> "ok", step |-> step]
Failed(step) == [ev |-> "fail", step |-> step]

\* A step of run() that starts and completes in one action.
Proceeds(step, next) ==
  /\ log' = log \o <<Started(step), Completed(step)>>
  /\ pc' = next
  /\ UNCHANGED error

\* A step of run() that starts and throws e to the catch clause at `handler`.
Throws(step, e, handler) ==
  /\ log' = log \o <<Started(step), Failed(step)>>
  /\ error' = e
  /\ pc' = handler

oauthVars == <<oa, refreshCalls, response, fs, clock>>
endVars == <<outputs, failed, exits>>

\* ------------------------------------------------------ the steps of run()

\* Step 1: const githubToken = await setupGitHubToken();
SetupGitHubToken ==
  /\ pc = "setupGitHubToken"
  /\ \/ /\ loc' = [loc EXCEPT !.githubToken = "ghs_token"]
        /\ Proceeds("setupGitHubToken", Successor("setupGitHubToken"))
     \/ /\ Throws("setupGitHubToken", Err("setupGitHubToken failed"), "catch")
        /\ UNCHANGED loc
  /\ UNCHANGED <<env, remote, oauthVars, endVars>>

\* const octokit = createOctokit(githubToken);
CreateOctokit ==
  /\ pc = "createOctokit"
  /\ \/ /\ loc' = [loc EXCEPT !.hasOctokit = TRUE]
        /\ Proceeds("createOctokit", Successor("createOctokit"))
     \/ /\ Throws("createOctokit", Err("createOctokit failed"), "catch")
        /\ UNCHANGED loc
  /\ UNCHANGED <<env, remote, oauthVars, endVars>>

\* Step 2: const context = parseGitHubContext();
ParseGitHubContext ==
  /\ pc = "parseGitHubContext"
  /\ \/ /\ loc' = [loc EXCEPT !.hasContext = TRUE]
        /\ Proceeds("parseGitHubContext", Successor("parseGitHubContext"))
     \/ /\ Throws("parseGitHubContext", Err("parseGitHubContext failed"), "catch")
        /\ UNCHANGED loc
  /\ UNCHANGED <<env, remote, oauthVars, endVars>>

\* Step 3: checkWritePermissions, and the throw when it returns false.
CheckWritePermissions ==
  /\ pc = "checkWritePermissions"
  /\ \/ \E hasWritePermissions \in BOOLEAN :
          /\ loc' = [loc EXCEPT !.hasWritePermissions = SetTo(hasWritePermissions)]
          /\ IF hasWritePermissions
             THEN Proceeds("checkWritePermissions", PermissionsNext(hasWritePermissions))
             ELSE Throws("checkWritePermissions",
                         Err("Actor does not have write permissions to the repository"),
                         PermissionsNext(hasWritePermissions))
     \/ /\ Throws("checkWritePermissions", Err("checkWritePermissions failed"), "catch")
        /\ UNCHANGED loc
  /\ UNCHANGED <<env, remote, oauthVars, endVars>>

\* Step 4: checkTriggerAction, and the early return when it returns false.
CheckTriggerAction ==
  /\ pc = "checkTriggerAction"
  /\ \/ \E containsTrigger \in BOOLEAN :
          /\ loc' = [loc EXCEPT !.containsTrigger = SetTo(containsTrigger)]
          /\ Proceeds("checkTriggerAction", TriggerNext(containsTrigger))
     \/ /\ Throws("checkTriggerAction", Err("checkTriggerAction failed"), "catch")
        /\ UNCHANGED loc
  /\ UNCHANGED <<env, remote, oauthVars, endVars>>

\* Step 5: await checkHumanActor(octokit.rest, context); throws for a bot.
CheckHumanActor ==
  /\ pc = "checkHumanActor"
  /\ \/ Proceeds("checkHumanActor", Successor("checkHumanActor"))
     \/ Throws("checkHumanActor", Err("checkHumanActor failed"), "catch")
  /\ UNCHANGED <<env, loc, remote, oauthVars, endVars>>

\* Step 6: const commentId = await createInitialComment(octokit.rest, context);
CreateInitialComment ==
  /\ pc = "createInitialComment"
  /\ \/ /\ loc' = [loc EXCEPT !.commentId = 1]
        /\ remote' = [remote EXCEPT !.comment = TRUE]
        /\ Proceeds("createInitialComment", Successor("createInitialComment"))
     \/ /\ Throws("createInitialComment", Err("createInitialComment failed"), "catch")
        /\ UNCHANGED <<loc, remote>>
  /\ UNCHANGED <<env, oauthVars, endVars>>

\* Step 7: const githubData = await fetchGitHubData({...});
FetchGitHubData ==
  /\ pc = "fetchGitHubData"
  /\ \/ Proceeds("fetchGitHubData", Successor("fetchGitHubData"))
     \/ Throws("fetchGitHubData", Err("fetchGitHubData failed"), "catch")
  /\ UNCHANGED <<env, loc, remote, oauthVars, endVars>>

\* Step 8: const branchInfo = await setupBranch(octokit, githubData, context);
\* and the test of branchInfo.claudeBranch that guards step 9.
SetupBranch ==
  /\ pc = "setupBranch"
  /\ \/ \E claudeBranch \in ClaudeBranchValues :
          /\ loc' = [loc EXCEPT !.claudeBranch = claudeBranch]
          /\ remote' = [remote EXCEPT !.branch = (claudeBranch # "")]
          /\ Proceeds("setupBranch", SetupBranchNext(claudeBranch))
     \/ /\ Throws("setupBranch", Err("setupBranch failed"), "catch")
        /\ UNCHANGED <<loc, remote>>
  /\ UNCHANGED <<env, oauthVars, endVars>>

\* Step 9: await updateTrackingComment(octokit, context, commentId, branchInfo.claudeBranch);
UpdateTrackingComment ==
  /\ pc = "updateTrackingComment"
  /\ \/ /\ remote' = [remote EXCEPT !.commentUpdated = TRUE]
        /\ Proceeds("updateTrackingComment", Successor("updateTrackingComment"))
     \/ /\ Throws("updateTrackingComment", Err("updateTrackingComment failed"), "catch")
        /\ UNCHANGED remote
  /\ UNCHANGED <<env, loc, oauthVars, endVars>>

\* Step 10: await createPrompt(...);
CreatePrompt ==
  /\ pc = "createPrompt"
  /\ \/ /\ remote' = [remote EXCEPT !.promptFile = TRUE]
        /\ Proceeds("createPrompt", Successor("createPrompt"))
     \/ /\ Throws("createPrompt", Err("createPrompt failed"), "catch")
        /\ UNCHANGED remote
  /\ UNCHANGED <<env, loc, oauthVars, endVars>>

\* Step 11: const mcpConfig = await prepareMcpConfig(...); and the test of
\* USE_OAUTH that guards step 12.
PrepareMcpConfig ==
  /\ pc = "prepareMcpConfig"
  /\ \/ /\ loc' = [loc EXCEPT !.mcpConfig = "mcp-config"]
        /\ Proceeds("prepareMcpConfig", McpConfigNext(UseOAuth(env)))
     \/ /\ Throws("prepareMcpConfig", Err("prepareMcpConfig failed"), "catch")
        /\ UNCHANGED loc
  /\ UNCHANGED <<env, remote, oauthVars, endVars>>

\* ------------------------------------------------------------ the OAuth step

\* if (!accessToken || !refreshToken || !expiresAt)
\* (variant: the expiry is not checked)
Incomplete_NoExpiryCheck(accessToken, refreshToken, expiresAt) ==
  accessToken = "" \/ refreshToken = ""
Incomplete(accessToken, refreshToken, expiresAt) ==
  accessToken = "" \/ refreshToken = "" \/ expiresAt = <<>>

\* 5 * 60 * 1000
FiveMinutesMs == 5 * 60 * 1000

\* if (expiresAtMs <= now + 5 * 60 * 1000)
\* (variants: the comparison reversed; the boundary excluded)
NeedsRefresh_Reversed(expiresAtMs, now) == Leq(Plus(now, Num(FiveMinutesMs)), expiresAtMs)
NeedsRefresh_Strict(expiresAtMs, now) ==
  Leq(expiresAtMs, Plus(now, Num(FiveMinutesMs))) /\ expiresAtMs # Plus(now, Num(FiveMinutesMs))
NeedsRefresh(expiresAtMs, now) == Leq(expiresAtMs, Plus(now, Num(FiveMinutesMs)))

\* What refreshOAuthToken returns for the response body data, at time now:
\* { accessToken: data.access_token, expiresAt: Date.now() + data.expires_in * 1000 }
RefreshResult(data, now) ==
  [accessToken |-> data.access_token,
   expiresAt |-> Plus(Num(now), Times(data.expires_in, Num(1000)))]

\* finalAccessToken = refreshed.accessToken; finalExpiresAt = refreshed.expiresAt;
\* (variant: only the access token is replaced)
AssignRefreshed_TokenOnly(o, refreshed) ==
  [o EXCEPT !.refreshed = refreshed, !.finalAccessToken = refreshed.accessToken]
AssignRefreshed(o, refreshed) ==
  [o EXCEPT !.refreshed = refreshed,
            !.finalAccessToken = refreshed.accessToken,
            !.finalExpiresAt = refreshed.expiresAt]

\* The catch clause of setupOAuthCredentials ends with `throw error`, which
\* run() catches around the call.
\* (variant: the error is logged and not thrown again)
SetupOAuthCatchNext_Swallowed == "mkdir"
SetupOAuthCatchNext == "runOAuthCatch"

Scopes == <<"user:inference", "user:profile">>

\* const credentialsData = { claudeAiOauth: {...} }
CredentialsData(finalAccessToken, refreshToken, finalExpiresAt) ==
  [accessToken |-> finalAccessToken, refreshToken |-> refreshToken,
   expiresAt |-> finalExpiresAt, scopes |-> Scopes]

\* JSON.stringify(credentialsData, null, 2)
JsonStringify(data) == [data EXCEPT !.expiresAt = JsonNumber(@)]

\* setupOAuthCredentials up to its first await: the environment is read, the
\* completeness check is made, and the expiry is compared with the time.
SetupOAuthCredentials ==
  /\ pc = "setupOAuthCredentials"
  /\ LET accessToken == OrEmpty(env.CLAUDE_ACCESS_TOKEN)
         refreshToken == OrEmpty(env.CLAUDE_REFRESH_TOKEN)
         expiresAt == OrEmptyChars(env.CLAUDE_EXPIRES_AT)
         expiresAtMs == ParseInt(expiresAt)
         now == Num(clock)
     IN IF Incomplete(accessToken, refreshToken, expiresAt)
        THEN /\ error' = Err("OAuth credentials are incomplete")
             /\ pc' = "runOAuthCatch"
             /\ oa' = [oa EXCEPT !.accessToken = accessToken, !.refreshToken = refreshToken,
                                 !.expiresAt = expiresAt]
        ELSE /\ oa' = [oa EXCEPT !.accessToken = accessToken, !.refreshToken = refreshToken,
                                 !.expiresAt = expiresAt, !.expiresAtMs = expiresAtMs,
                                 !.now = now, !.finalAccessToken = accessToken,
                                 !.finalExpiresAt = expiresAtMs]
             /\ pc' = IF NeedsRefresh(expiresAtMs, now) THEN "refreshOAuthToken" ELSE "mkdir"
             /\ UNCHANGED error
  /\ log' = Append(log, Started("setupOAuthCredentials"))
  /\ UNCHANGED <<env, clock, loc, remote, refreshCalls, response, fs, endVars>>

\* refreshOAuthToken(refreshToken): one POST to the token endpoint; the
\* result is assigned to the final pair, or the error is thrown to the catch
\* clause of setupOAuthCredentials.
RefreshOAuthToken ==
  /\ pc = "refreshOAuthToken"
  /\ refreshCalls' = refreshCalls + 1
  /\ \E d \in 0..MaxDelay : clock' = clock + d
  /\ \/ \E data \in OkResponses :
          /\ response' = data
          /\ oa' = AssignRefreshed(oa, RefreshResult(data, clock'))
          /\ pc' = "mkdir"
          /\ UNCHANGED error
     \/ \E r \in ErrorResponses :
          /\ response' = r
          /\ error' = RefreshError(r.status, r.text)
          /\ pc' = "setupOAuthCatch"
          /\ UNCHANGED oa
     \/ /\ error' = Err("fetch failed")
        /\ pc' = "setupOAuthCatch"
        /\ UNCHANGED <<response, oa>>
  /\ UNCHANGED <<env, log, loc, remote, fs, endVars>>

\* catch (error) { console.error(...); throw error; } in setupOAuthCredentials
SetupOAuthCatch ==
  /\ pc = "setupOAuthCatch"
  /\ pc' = SetupOAuthCatchNext
  /\ UNCHANGED <<env, clock, log, loc, remote, oa, refreshCalls, response, fs, error, endVars>>

\* await mkdir(claudeDir, { recursive: true });
Mkdir ==
  /\ pc = "mkdir"
  /\ \/ /\ fs' = [fs EXCEPT !.mkdirs = @ + 1]
        /\ pc' = "writeFile"
        /\ UNCHANGED error
     \/ /\ error' = Err("mkdir failed")
        /\ pc' = "runOAuthCatch"
        /\ UNCHANGED fs
  /\ UNCHANGED <<env, clock, log, loc, remote, oa, refreshCalls, response, endVars>>

\* await writeFile(credentialsPath, JSON.stringify(credentialsData, null, 2));
\* after which setupOAuthCredentials returns.
WriteFile ==
  /\ pc = "writeFile"
  /\ \/ /\ fs' = [fs EXCEPT !.writes = Append(@, JsonStringify(
                    CredentialsData(oa.finalAccessToken, oa.refreshToken, oa.finalExpiresAt)))]
        /\ log' = Append(log, Completed("setupOAuthCredentials"))
        /\ pc' = Successor("setupOAuthCredentials")
        /\ UNCHANGED error
     \/ /\ error' = Err("writeFile failed")
        /\ pc' = "runOAuthCatch"
        /\ UNCHANGED <<fs, log>>
  /\ UNCHANGED <<env, clock, loc, remote, oa, refreshCalls, response, endVars>>

\* catch (error) { console.error(...); throw error; } around the call in run()
RunOAuthCatch ==
  /\ pc = "runOAuthCatch"
  /\ log' = Append(log, Failed("setupOAuthCredentials"))
  /\ pc' = "catch"
  /\ UNCHANGED <<env, clock, loc, remote, oa, refreshCalls, response, fs, error, endVars>>

\* core.setOutput("mcp_config", mcpConfig); core.setOutput("github_token", githubToken);
SetOutput ==
  /\ pc = "setOutput"
  /\ outputs' = {<<"mcp_config", loc.mcpConfig>>, <<"github_token", loc.githubToken>>}
  /\ Proceeds("setOutput", Successor("setOutput"))
  /\ UNCHANGED <<env, loc, remote, oauthVars, failed, exits>>

\* catch (error) { core.setFailed(...); process.exit(1); } of run()
RunCatch ==
  /\ pc = "catch"
  /\ failed' = Append(failed, FailureMessage(error))
  /\ exits' = Append(exits, 1)
  /\ pc' = "exited"
  /\ UNCHANGED <<env, clock, log, loc, remote, oa, refreshCalls, response, fs, outputs, error>>

Next ==
  \/ SetupGitHubToken
  \/ CreateOctokit
  \/ ParseGitHubContext
  \/ CheckWritePermissions
  \/ CheckTriggerAction
  \/ CheckHumanActor
  \/ CreateInitialComment
  \/ FetchGitHubData
  \/ SetupBranch
  \/ UpdateTrackingComment
  \/ CreatePrompt
  \/ PrepareMcpConfig
  \/ SetupOAuthCredentials
  \/ RefreshOAuthToken
  \/ SetupOAuthCatch
  \/ Mkdir
  \/ WriteFile
  \/ RunOAuthCatch
  \/ SetOutput
  \/ RunCatch

Spec == Init /\ [][Next]_vars

\* ============================================================== properties

InLog(e) == \E i \in DOMAIN log : log[i] = e
Finished == pc \in {"returned", "exited"}
OAuthStep == "setupOAuthCredentials"
ReachedOAuth == InLog(Started(OAuthStep))

\* The environment as the run is given it.
OAuthEnabled == env.USE_OAUTH = SetTo("true")
AccessPresent == env.CLAUDE_ACCESS_TOKEN.set /\ env.CLAUDE_ACCESS_TOKEN.val # ""
RefreshPresent == env.CLAUDE_REFRESH_TOKEN.set /\ env.CLAUDE_REFRESH_TOKEN.val # ""
ExpiryPresent == env.CLAUDE_EXPIRES_AT.set /\ env.CLAUDE_EXPIRES_AT.val # <<>>

\* CLAUDE_EXPIRES_AT read as a number, and the time the OAuth step compares it with.
ExpiryMs == ParseInt(env.CLAUDE_EXPIRES_AT.val)
NowMs == IF oa.now.nan THEN clock ELSE oa.now.v
ExpiresWithinFiveMinutes == ~ExpiryMs.nan /\ ExpiryMs.v <= NowMs + 300000
ExpiresLaterThanFiveMinutes == ~ExpiryMs.nan /\ ExpiryMs.v > NowMs + 300000

\* The pair a successful refresh returns, as written in JSON.
RefreshedAccessToken == response.access_token
RefreshedExpiresAtJson == [null |-> FALSE, num |-> clock + response.expires_in.v * 1000]

\* C1: a refresh POST is made only when the access token is absent or expires
\* within 5 minutes of the current time; with an access token present whose
\* expiry is more than 5 minutes after now, no refresh call is made in the
\* whole run.
C1_NoRefreshForValidToken ==
  /\ refreshCalls > 0 => (~AccessPresent \/ ExpiresWithinFiveMinutes)
  /\ (AccessPresent /\ ExpiresLaterThanFiveMinutes) => refreshCalls = 0

C1_Witness ==
  /\ pc = "returned"
  /\ ReachedOAuth
  /\ AccessPresent /\ ExpiresLaterThanFiveMinutes
  /\ refreshCalls = 0
  /\ Len(fs.writes) = 1

\* The record the credentials file holds after a successful refresh.
WrittenIsRefreshed ==
  /\ Len(fs.writes) = 1
  /\ fs.writes[1].accessToken = RefreshedAccessToken
  /\ fs.writes[1].expiresAt = RefreshedExpiresAtJson

C3_RefreshFailureAborts ==
  /\ refreshCalls <= 1
  /\ (response.status # 0 /\ ~response.ok) =>
       /\ error = [msg |-> "Failed to refresh token", status |-> response.status,
                   body |-> response.text]
       /\ pc \in {"setupOAuthCatch", "runOAuthCatch", "catch", "exited"}
       /\ outputs = {}
       /\ pc = "exited" =>
            /\ failed = << [prefix |-> "Prepare step failed with error",
                            error |-> [msg |-> "Failed to refresh token",
                                       status |-> response.status,
                                       body |-> response.text]] >>
            /\ exits = <<1>>
            /\ refreshCalls = 1

C3_Witness ==
  /\ pc = "exited"
  /\ response.status = 500 /\ response.text = "invalid_grant"
  /\ error.status = 500 /\ error.body = "invalid_grant"
  /\ refreshCalls = 1
  /\ exits = <<1>>

\* C4: when USE_OAUTH is unset or has any value other than 'true',
\* setupOAuthCredentials is never invoked: no credentials directory is
\* created, no credentials file is written and no refresh call is made.
C4_NoOAuthWhenDisabled ==
  env.USE_OAUTH # SetTo("true") =>
    /\ ~ReachedOAuth
    /\ pc \notin {"setupOAuthCredentials", "refreshOAuthToken", "setupOAuthCatch",
                  "mkdir", "writeFile", "runOAuthCatch"}
    /\ fs.mkdirs = 0
    /\ fs.writes = <<>>
    /\ refreshCalls = 0

C4_Witness ==
  /\ pc = "returned"
  /\ env.USE_OAUTH = SetTo("TRUE")
  /\ AccessPresent /\ RefreshPresent /\ ExpiryPresent /\ ExpiresWithinFiveMinutes
  /\ outputs # {}
  /\ fs.writes = <<>>

LaterSteps ==
  {"checkHumanActor", "createInitialComment", "fetchGitHubData", "setupBranch",
   "updateTrackingComment", "createPrompt", "prepareMcpConfig", "setupOAuthCredentials"}

\* C5: when checkTriggerAction returns false, run returns at once: none of
\* the later steps is executed, no tracking comment is posted and no branch
\* is created.
C5_NoTriggerExitsEarly ==
  loc.containsTrigger = SetTo(FALSE) =>
    /\ pc = "returned"
    /\ \A i \in DOMAIN log : log[i].step \notin LaterSteps
    /\ ~remote.comment /\ ~remote.branch /\ ~remote.commentUpdated /\ ~remote.promptFile
    /\ fs.writes = <<>> /\ refreshCalls = 0
    /\ failed = <<>> /\ exits = <<>>

C5_Witness ==
  /\ loc.containsTrigger = SetTo(FALSE)
  /\ pc = "returned"
  /\ log[Len(log)] = Completed("checkTriggerAction")

\* The order of the steps of run.
StepOrder ==
  <<"setupGitHubToken", "checkWritePermissions", "checkTriggerAction", "checkHumanActor",
    "createInitialComment", "fetchGitHubData", "setupBranch", "updateTrackingComment",
    "createPrompt", "prepareMcpConfig", "setupOAuthCredentials", "setOutput">>
OrderedSteps == {StepOrder[k] : k \in DOMAIN StepOrder}
Position(step) == CHOOSE k \in DOMAIN StepOrder : StepOrder[k] = step

\* The ordered steps start in the order of StepOrder, each at most once.
StartsInOrder ==
  \A i, j \in DOMAIN log :
    (i < j /\ log[i].ev = "start" /\ log[j].ev = "start"
       /\ log[i].step \in OrderedSteps /\ log[j].step \in OrderedSteps)
      => Position(log[i].step) < Position(log[j].step)

\* Every ordered step that started did so after every step before it in
\* StepOrder, those in `skipped` excepted, had completed.
StartsAfterAllEarlier(skipped) ==
  \A i \in DOMAIN log :
    (log[i].ev = "start" /\ log[i].step \in OrderedSteps) =>
      \A k \in 1..(Position(log[i].step) - 1) :
        \/ StepOrder[k] \in skipped
        \/ \E j \in 1..(i - 1) : log[j] = Completed(StepOrder[k])

\* No comment before the checks have passed; outputs only after the OAuth step.
CommentAfterChecks ==
  remote.comment =>
    /\ loc.hasWritePermissions = SetTo(TRUE)
    /\ loc.containsTrigger = SetTo(TRUE)
    /\ InLog(Completed("checkHumanActor"))
OutputsAfterOAuth ==
  outputs # {} => (OAuthEnabled => InLog(Completed(OAuthStep)))

\* C6 as stated: the steps run in one fixed order and each step starts only
\* after all earlier steps of the sequence have completed, the OAuth step
\* alone being optional.
C6_AsStated ==
  /\ StartsInOrder
  /\ StartsAfterAllEarlier(IF OAuthEnabled THEN {} ELSE {OAuthStep})
  /\ CommentAfterChecks
  /\ OutputsAfterOAuth

\* C6 (amended): the steps run in one fixed order and each step starts only
\* after all earlier steps have completed, where the OAuth step is skipped
\* when USE_OAUTH is not enabled and the update-comment step is skipped when
\* setupBranch created no branch (and is not skipped otherwise); no comment
\* is posted before the permission, trigger and human-actor checks have
\* passed, and outputs are emitted only after the OAuth step, when enabled,
\* has completed.
C6_FixedOrder ==
  /\ StartsInOrder
  /\ StartsAfterAllEarlier((IF OAuthEnabled THEN {} ELSE {OAuthStep})
                             \cup (IF loc.claudeBranch = "" THEN {"updateTrackingComment"} ELSE {}))
  /\ InLog(Started("updateTrackingComment")) => loc.claudeBranch # ""
  /\ CommentAfterChecks
  /\ OutputsAfterOAuth

C6_Witness ==
  /\ pc = "returned"
  /\ OAuthEnabled
  /\ outputs # {}
  /\ loc.claudeBranch = ""
  /\ ~InLog(Started("updateTrackingComment"))
  /\ InLog(Completed("createPrompt"))
  /\ InLog(Completed(OAuthStep))

LastEvent == log[Len(log)]
SomeStepFailed == \E i \in DOMAIN log : log[i].ev = "fail"

\* C7: a failure at any step (a false write-permission check included) aborts
\* the run: no step starts after the failing one, the error is handled once
\* at the top level, where core.setFailed is called with it and the process
\* exits with code 1, and no output is emitted; the effects of the steps
\* that had completed stay in place.
C7_FailureAborts ==
  /\ Len(failed) <= 1 /\ Len(exits) <= 1
  /\ \A i \in DOMAIN log : log[i].ev = "fail" => i = Len(log)
  /\ error # [msg |-> "", status |-> 0, body |-> ""] =>
       /\ pc \in {"setupOAuthCatch", "runOAuthCatch", "catch", "exited"}
       /\ outputs = {}
  /\ SomeStepFailed => pc \in {"catch", "exited"}
  /\ loc.hasWritePermissions = SetTo(FALSE) =>
       /\ LastEvent = Failed("checkWritePermissions")
       /\ error.msg = "Actor does not have write permissions to the repository"
  /\ pc = "exited" <=> exits # <<>>
  /\ pc = "exited" =>
       /\ SomeStepFailed
       /\ failed = << [prefix |-> "Prepare step failed with error", error |-> error] >>
       /\ exits = <<1>>
       /\ outputs = {}
  /\ pc = "returned" => failed = <<>> /\ ~SomeStepFailed
  /\ InLog(Completed("createInitialComment")) => remote.comment
  /\ (InLog(Completed("setupBranch")) /\ loc.claudeBranch # "") => remote.branch
  /\ InLog(Completed("updateTrackingComment")) => remote.commentUpdated
  /\ InLog(Completed("createPrompt")) => remote.promptFile

C7_Witness ==
  /\ pc = "exited"
  /\ LastEvent = Failed("prepareMcpConfig")
  /\ remote.comment /\ remote.branch /\ remote.commentUpdated /\ remote.promptFile
  /\ outputs = {}
  /\ exits = <<1>>
  /\ Len(failed) = 1

\* C8: the credential record is written at most once per run; whenever it is
\* written its (accessToken, expiresAt) pair is either the pair read from
\* the environment (the expiry as the number parseInt reads, no refresh
\* having been made) or the pair the single successful refresh returned,
\* never one field of each; its refreshToken is the one read from the
\* environment and its scopes are the fixed list.
C8_RecordWrittenOnce ==
  /\ Len(fs.writes) <= 1
  /\ \A i \in DOMAIN fs.writes :
       /\ fs.writes[i].refreshToken = env.CLAUDE_REFRESH_TOKEN.val
       /\ env.CLAUDE_REFRESH_TOKEN.set
       /\ fs.writes[i].scopes = <<"user:inference", "user:profile">>
       /\ \/ /\ refreshCalls = 0
             /\ fs.writes[i].accessToken = env.CLAUDE_ACCESS_TOKEN.val
             /\ env.CLAUDE_ACCESS_TOKEN.set
             /\ fs.writes[i].expiresAt =
                  (IF ExpiryMs.nan THEN [null |-> TRUE, num |-> 0]
                                   ELSE [null |-> FALSE, num |-> ExpiryMs.v])
          \/ /\ refreshCalls = 1
             /\ response.ok
             /\ fs.writes[i].accessToken = RefreshedAccessToken
             /\ fs.writes[i].expiresAt = RefreshedExpiresAtJson

C8_Witness ==
  /\ pc = "returned"
  /\ refreshCalls = 1
  /\ Len(fs.writes) = 1
  /\ fs.writes[1].accessToken = "access-new"
  /\ fs.writes[1].accessToken # env.CLAUDE_ACCESS_TOKEN.val
  /\ fs.writes[1].expiresAt.num = clock + 1000
  /\ fs.writes[1].refreshToken = "refresh-1"

OAuthStepErrors ==
  {"OAuth credentials are incomplete", "Failed to refresh token", "fetch failed"}

\* C9: whenever setupOAuthCredentials fails for incomplete credentials or a
\* failed refresh, the OAuth step has left the file system as it was: the
\* credentials directory is not created and no credentials file is written.
\* A credentials file exists after a run only if the OAuth step completed.
C9_FailureLeavesFilesUntouched ==
  /\ error.msg \in OAuthStepErrors => (fs.mkdirs = 0 /\ fs.writes = <<>>)
  /\ InLog(Failed(OAuthStep)) => fs.writes = <<>>
  /\ fs.writes # <<>> => InLog(Completed(OAuthStep))

C9_Witness ==
  /\ pc = "exited"
  /\ LastEvent = Failed(OAuthStep)
  /\ error.msg = "Failed to refresh token"
  /\ refreshCalls = 1
  /\ fs.mkdirs = 0 /\ fs.writes = <<>>

\* C10: with USE_OAUTH enabled, if the access token, the refresh token or the
\* expiry is missing or empty, setupOAuthCredentials fails with 'OAuth
\* credentials are incomplete' before any refresh call, and the run fails,
\* although the comment, the branch setup, the prompt and the MCP
\* configuration of the earlier steps are already in place.
C10_IncompleteCredentialsFail ==
  (ReachedOAuth /\ ~(AccessPresent /\ RefreshPresent /\ ExpiryPresent)) =>
    /\ error = [msg |-> "OAuth credentials are incomplete", status |-> 0, body |-> ""]
    /\ refreshCalls = 0
    /\ pc \in {"runOAuthCatch", "catch", "exited"}
    /\ fs.writes = <<>>
    /\ outputs = {}
    /\ pc = "exited" =>
         /\ exits = <<1>>
         /\ failed = << [prefix |-> "Prepare step failed with error", error |-> error] >>
    /\ remote.comment /\ remote.promptFile /\ loc.mcpConfig # ""
    /\ InLog(Completed("setupBranch"))
    /\ loc.claudeBranch # "" => remote.branch

C10_Witness ==
  /\ pc = "exited"
  /\ OAuthEnabled
  /\ AccessPresent /\ RefreshPresent /\ ~ExpiryPresent
  /\ error.msg = "OAuth credentials are incomplete"
  /\ remote.comment /\ remote.branch /\ remote.promptFile
  /\ refreshCalls = 0

====
